---- MODULE Spec2Model ----
(***************************************************************************)
(* Model of the flagg feature-flag resolver (src/src/core/index.ts).       *)
(*                                                                         *)
(* JavaScript values are records [type, str] so that values of different   *)
(* JavaScript types can be compared with = (the model's ===).              *)
(***************************************************************************)
EXTENDS Naturals, Sequences, FiniteSets, TLC

VARIABLES storageArr, hydrateFromStorages, definitions, contents, pending, last

vars == <<storageArr, hydrateFromStorages, definitions, contents, pending, last>>

(***************************************************************************)
(* JavaScript values                                                       *)
(***************************************************************************)
undefined == [type |-> "undefined", str |-> "undefined"]
null == [type |-> "null", str |-> "null"]
jsTrue == [type |-> "boolean", str |-> "true"]
jsFalse == [type |-> "boolean", str |-> "false"]
Str(s) == [type |-> "string", str |-> s]

\* !!v
ToBoolean(v) ==
  CASE v.type = "boolean" -> v.str = "true"
    [] v.type = "string" -> v.str # ""
    [] OTHER -> FALSE

\* JSON.stringify that leaves a string's quotes out
JSONstringify_unquoted(v) ==
  IF v.type = "undefined" THEN undefined ELSE Str(v.str)

\* JSON.stringify(v) for the primitives a FlagValue can be; the result is a
\* JavaScript string, or undefined for undefined.
JSONstringify(v) ==
  CASE v.type = "undefined" -> undefined
    [] v.type = "string" -> Str("\"" \o v.str \o "\"")
    [] OTHER -> Str(v.str)

\* A property key: String(v)
ToPropertyKey(v) == v.str

(***************************************************************************)
(* Bounds and the finite sets the inputs are drawn from                    *)
(***************************************************************************)
MaxPending == 2
MaxBulk == 2
MaxSources == 2

FlagNames == {"a", "b"}

DEFAULT_STORAGE_NAME == "_default"

\* Names every JavaScript object literal inherits from Object.prototype.
ObjectPrototypeKeys == {"constructor", "toString", "__proto__"}

\* A storage object: its name, whether it has set / remove, and whether its
\* set / remove throw (a failing backend).
Storage(n, s, r, f) == [name |-> n, set |-> s, remove |-> r, fails |-> f]
ReadWrite(n) == Storage(n, TRUE, TRUE, FALSE)
ReadOnly(n) == Storage(n, FALSE, FALSE, FALSE)
Failing(n) == Storage(n, TRUE, TRUE, TRUE)
SetOnly(n) == Storage(n, TRUE, FALSE, FALSE)

StorageChoices ==
  { <<ReadWrite("A")>>,
    <<ReadWrite("A"), ReadWrite("B")>>,
    <<ReadOnly("A"), ReadWrite("B")>>,
    <<ReadWrite("A"), SetOnly("B")>>,
    <<ReadWrite("A"), Failing("B")>>,
    <<ReadWrite("A"), ReadWrite(DEFAULT_STORAGE_NAME)>> }

Pair(k, v) == [key |-> k, value |-> v]

\* A hydration source: what its all() settles to.
Source(s, vals) == [settles |-> s, values |-> vals]

HydrateChoices ==
  { << >>,
    <<Source("resolve", <<Pair("a", jsTrue)>>)>>,
    <<Source("resolve", <<Pair("b", jsTrue), Pair("a", jsFalse)>>)>>,
    <<Source("never", << >>), Source("resolve", <<Pair("a", jsTrue)>>)>>,
    <<Source("reject", << >>), Source("resolve", <<Pair("a", jsTrue)>>)>> }

\* The constructor's options: every storage arrangement without hydration,
\* and every hydration arrangement over writable storages.
Opts(s, h) == [storage |-> s, hydrateFrom |-> h]

OptsChoices ==
  {Opts(s, << >>) : s \in StorageChoices}
    \cup {Opts(<<ReadWrite("A")>>, h) : h \in HydrateChoices}
    \cup {Opts(<<ReadWrite("A"), ReadWrite("B")>>,
                <<Source("resolve", <<Pair("b", jsTrue), Pair("a", jsFalse)>>)>>)}

FlagDefinition(d, o, s) ==
  [type |-> "object", default |-> d, options |-> o, storage |-> s]

DefsA ==
  { FlagDefinition(d, FALSE, undefined) :
      d \in {undefined, jsFalse, jsTrue, Str("true")} }
    \cup {FlagDefinition(jsFalse, TRUE, undefined)}

DefsB ==
  { FlagDefinition(jsFalse, FALSE, Str(s)) : s \in {"B", "C", "constructor"} }

\* The registries: empty, flag a alone with each definition, flag b alone,
\* and both flags with each storage name for b.
DefinitionChoices ==
  {<< >>}
    \cup {[f \in {"a"} |-> d] : d \in DefsA}
    \cup {[f \in {"b"} |-> FlagDefinition(jsFalse, FALSE, Str("B"))]}
    \cup {[f \in FlagNames |->
              IF f = "a" THEN FlagDefinition(jsFalse, FALSE, undefined) ELSE d] :
           d \in DefsB}

\* The calls set(flagName, value) is given: every kind of value for flag a,
\* the two booleans for flag b.
SetValues == {undefined, null, jsTrue, jsFalse, Str("true")}
SetChoices ==
  {Pair("a", v) : v \in SetValues} \cup {Pair("b", v) : v \in {jsTrue, jsFalse}}

\* The objects a bulk set can be given: ordered pairs with distinct keys.
BulkPairs == {Pair("a", jsTrue), Pair("a", jsFalse), Pair("b", jsTrue)}
BulkChoices ==
  { p \in UNION { [1..n -> BulkPairs] : n \in 1..MaxBulk } :
      \A i, j \in DOMAIN p : i # j => p[i].key # p[j].key }

(***************************************************************************)
(* Storage map and storage objects                                         *)
(***************************************************************************)
\* The value a property read yields for a name the object only inherits:
\* an object that is no storage (it has no get, set or remove).
PrototypeMember == 0

Put(m, k, v) == [x \in DOMAIN m \cup {k} |-> IF x = k THEN v ELSE m[x]]

RECURSIVE storageReduce(_, _, _)
storageReduce(arr, i, acc) ==
  IF i > Len(arr) THEN acc
  ELSE storageReduce(arr, i + 1, Put(acc, arr[i].name, i))

\* name -> index into storageArr
makeStorageMap(arr) ==
  storageReduce(arr, 1, [n \in {DEFAULT_STORAGE_NAME} |-> 1])

storageMap == makeStorageMap(storageArr)

\* storage.get(key), storage.set(key, value), storage.remove(key) of a
\* storage object that holds the mapping c.
StorageGet(c, key) == c[key]
StorageSet(c, key, value) == [c EXCEPT ![key] = value]
StorageRemove(c, key) == [c EXCEPT ![key] = undefined]

Ok(v) == [threw |-> "none", value |-> v]
Throw(e) == [threw |-> e, value |-> undefined]

(***************************************************************************)
(* Module-level functions of core/index.ts                                 *)
(***************************************************************************)
getFlagDef(defs, flagName) ==
  IF flagName \in DOMAIN defs THEN defs[flagName] ELSE undefined

getFlagDefaultValue(flagDef) ==
  IF flagDef.default = undefined THEN null ELSE flagDef.default

\* Whether storageMap[storageName] is truthy, and what it is.
storageMapHas(map, storageName) ==
  storageName \in DOMAIN map \cup ObjectPrototypeKeys

storageMapRead(map, storageName) ==
  IF storageName \in DOMAIN map THEN map[storageName] ELSE PrototypeMember

\* resolveFlagStorage that ignores the definition's storage name
resolveFlagStorage_alwaysDefault(flagDef, map) == map[DEFAULT_STORAGE_NAME]

resolveFlagStorage(flagDef, map) ==
  LET storageName == ToPropertyKey(flagDef.storage) IN
  IF storageMapHas(map, storageName) THEN storageMapRead(map, storageName)
  ELSE map[DEFAULT_STORAGE_NAME]

\* The console.warn of resolveFlagStorage
resolveFlagStorageWarns(flagDef, map) ==
  /\ ~storageMapHas(map, ToPropertyKey(flagDef.storage))
  /\ flagDef.storage # undefined

getFlagValue(flagDef, flagName, map, c) ==
  LET storage == resolveFlagStorage(flagDef, map) IN
  IF storage = PrototypeMember THEN Throw("TypeError")
  ELSE Ok(StorageGet(c[storage], flagName))

\* getResolvedFlagValue that falls back to the default for undefined only
getResolvedFlagValue_undefinedOnly(defs, flagName, map, c) ==
  LET flagDef == getFlagDef(defs, flagName) IN
  IF flagDef = undefined THEN Ok(null)
  ELSE LET r == getFlagValue(flagDef, flagName, map, c)
       IN IF r.threw # "none" THEN r
          ELSE IF r.value = undefined THEN Ok(getFlagDefaultValue(flagDef))
          ELSE r

getResolvedFlagValue(defs, flagName, map, c) ==
  LET flagDef == getFlagDef(defs, flagName) IN
  IF flagDef = undefined THEN Ok(null)
  ELSE LET defaultValue == getFlagDefaultValue(flagDef)
           r == getFlagValue(flagDef, flagName, map, c)
       IN IF r.threw # "none" THEN r
          ELSE IF r.value = undefined \/ r.value = null THEN Ok(defaultValue)
          ELSE r

Outcome(c, t, w) == [contents |-> c, threw |-> t, warned |-> w]

\* "x in storage" for x = set / remove
HasSet(arr, storage) == storage # PrototypeMember /\ arr[storage].set
HasRemove(arr, storage) == storage # PrototypeMember /\ arr[storage].remove

\* setFlagValue that stores a value equal to the default instead of removing
setFlagValue_storesDefault(defs, flagName, value, arr, map, c) ==
  LET flagDef == getFlagDef(defs, flagName) IN
  IF flagDef = undefined THEN Outcome(c, "TypeError", FALSE)
  ELSE
    LET storage == resolveFlagStorage(flagDef, map)
        w == resolveFlagStorageWarns(flagDef, map)
    IN IF HasSet(arr, storage)
       THEN IF arr[storage].fails THEN Outcome(c, "backend", w)
            ELSE Outcome([c EXCEPT ![storage] = StorageSet(@, flagName, value)], "none", w)
       ELSE Outcome(c, "none", TRUE)

\* setFlagValue that calls remove / set without looking for them first
setFlagValue_noCapabilityCheck(defs, flagName, value, arr, map, c) ==
  LET flagDef == getFlagDef(defs, flagName) IN
  IF flagDef = undefined THEN Outcome(c, "TypeError", FALSE)
  ELSE
    LET storage == resolveFlagStorage(flagDef, map)
        w == resolveFlagStorageWarns(flagDef, map)
        defaultValue == getFlagDefaultValue(flagDef)
    IN IF JSONstringify(value) = JSONstringify(defaultValue)
       THEN IF ~HasRemove(arr, storage) THEN Outcome(c, "TypeError", w)
            ELSE IF arr[storage].fails THEN Outcome(c, "backend", w)
            ELSE Outcome([c EXCEPT ![storage] = StorageRemove(@, flagName)], "none", w)
       ELSE IF ~HasSet(arr, storage) THEN Outcome(c, "TypeError", w)
            ELSE IF arr[storage].fails THEN Outcome(c, "backend", w)
            ELSE Outcome([c EXCEPT ![storage] = StorageSet(@, flagName, value)], "none", w)

setFlagValue(defs, flagName, value, arr, map, c) ==
  LET flagDef == getFlagDef(defs, flagName) IN
  IF flagDef = undefined THEN Outcome(c, "TypeError", FALSE)
  ELSE
    LET storage == resolveFlagStorage(flagDef, map)
        w == resolveFlagStorageWarns(flagDef, map)
        defaultValue == getFlagDefaultValue(flagDef)
    IN IF JSONstringify(value) = JSONstringify(defaultValue)
       THEN IF HasRemove(arr, storage)
            THEN IF arr[storage].fails THEN Outcome(c, "backend", w)
                 ELSE Outcome([c EXCEPT ![storage] = StorageRemove(@, flagName)], "none", w)
            ELSE Outcome(c, "none", TRUE)
       ELSE IF HasSet(arr, storage)
            THEN IF arr[storage].fails THEN Outcome(c, "backend", w)
                 ELSE Outcome([c EXCEPT ![storage] = StorageSet(@, flagName, value)], "none", w)
            ELSE Outcome(c, "none", TRUE)

\* getFlagType that takes every default that is no boolean for a string
getFlagType_nonBooleanIsString(flagDef) ==
  IF flagDef.options THEN "select"
  ELSE IF flagDef.default.type # "boolean" THEN "string"
  ELSE "boolean"

getFlagType(flagDef) ==
  IF flagDef.options THEN "select"
  ELSE IF flagDef.default.type = "string" THEN "string"
  ELSE "boolean"

(***************************************************************************)
(* The resolver's methods that only read                                   *)
(***************************************************************************)
get(flagName) == getResolvedFlagValue(definitions, flagName, storageMap, contents)

getDefault(flagName) ==
  LET flagDef == getFlagDef(definitions, flagName) IN
  IF flagDef = undefined THEN Throw("TypeError")
  ELSE Ok(getFlagDefaultValue(flagDef))

isOn(flagName) ==
  LET r == get(flagName) IN
  IF r.threw # "none" THEN r
  ELSE Ok(IF ToBoolean(r.value) THEN jsTrue ELSE jsFalse)

\* isOverridden that compares with false instead of the flag's default
isOverridden_againstFalse(flagName) ==
  LET flagDef == getFlagDef(definitions, flagName) IN
  IF flagDef = undefined THEN Throw("TypeError")
  ELSE IF get(flagName).threw # "none" THEN get(flagName)
  ELSE LET differs ==
             IF getFlagType(flagDef) = "boolean"
             THEN ToBoolean(isOn(flagName).value) # FALSE
             ELSE get(flagName).value # jsFalse
       IN Ok(IF differs THEN jsTrue ELSE jsFalse)

isOverridden(flagName) ==
  LET flagDef == getFlagDef(definitions, flagName) IN
  IF flagDef = undefined THEN Throw("TypeError")
  ELSE IF get(flagName).threw # "none" THEN get(flagName)
  ELSE LET differs ==
             IF getFlagType(flagDef) = "boolean"
             THEN ToBoolean(isOn(flagName).value) # ToBoolean(getDefault(flagName).value)
             ELSE get(flagName).value # getDefault(flagName).value
       IN Ok(IF differs THEN jsTrue ELSE jsFalse)

\* Object.keys(obj): the keys of a registry, one after the other
RECURSIVE ObjectKeys(_)
ObjectKeys(obj) ==
  IF DOMAIN obj = {} THEN << >>
  ELSE LET k == CHOOSE x \in DOMAIN obj : \A y \in DOMAIN obj : x = y \/ x \notin {"b"}
       IN <<k>> \o ObjectKeys([x \in DOMAIN obj \ {k} |-> obj[x]])

\* The reduce of getAllResolved from key i on; a throwing get ends it.
RECURSIVE reduceResolved(_, _, _)
reduceResolved(keys, i, acc) ==
  IF i > Len(keys) THEN Ok(acc)
  ELSE IF get(keys[i]).threw # "none" THEN Throw(get(keys[i]).threw)
  ELSE reduceResolved(keys, i + 1, Put(acc, keys[i], get(keys[i]).value))

getAllResolved == reduceResolved(ObjectKeys(definitions), 1, << >>)

\* The reduce of getAllOverridden from key i on
RECURSIVE reduceOverridden(_, _, _)
reduceOverridden(keys, i, acc) ==
  IF i > Len(keys) THEN Ok(acc)
  ELSE IF isOverridden(keys[i]).threw # "none" THEN Throw(isOverridden(keys[i]).threw)
  ELSE IF isOverridden(keys[i]).value = jsTrue
       THEN reduceOverridden(keys, i + 1, Put(acc, keys[i], get(keys[i]).value))
       ELSE reduceOverridden(keys, i + 1, acc)

getAllOverridden == reduceOverridden(ObjectKeys(definitions), 1, << >>)

(***************************************************************************)
(* The resolver's methods that write                                       *)
(***************************************************************************)
\* Object.entries(flags).forEach(...) : the pairs from index i on, applied in
\* order; an exception leaves the loop.  done counts the pairs whose
\* setFlagValue returned.
RECURSIVE forEachSetFlagValue(_, _, _, _, _, _, _)
forEachSetFlagValue(pairs, i, defs, arr, map, c, w) ==
  IF i > Len(pairs) THEN [contents |-> c, threw |-> "none", warned |-> w, done |-> i - 1]
  ELSE LET o == setFlagValue(defs, pairs[i].key, pairs[i].value, arr, map, c) IN
       IF o.threw # "none"
       THEN [contents |-> c, threw |-> o.threw, warned |-> w \/ o.warned, done |-> i - 1]
       ELSE forEachSetFlagValue(pairs, i + 1, defs, arr, map, o.contents, w \/ o.warned)

\* A forEach that passes over a pair whose setFlagValue throws a TypeError
RECURSIVE forEachSetFlagValue_skipsUnknown(_, _, _, _, _, _, _)
forEachSetFlagValue_skipsUnknown(pairs, i, defs, arr, map, c, w) ==
  IF i > Len(pairs) THEN [contents |-> c, threw |-> "none", warned |-> w, done |-> i - 1]
  ELSE LET o == setFlagValue(defs, pairs[i].key, pairs[i].value, arr, map, c) IN
       IF o.threw = "backend"
       THEN [contents |-> c, threw |-> o.threw, warned |-> w \/ o.warned, done |-> i - 1]
       ELSE forEachSetFlagValue_skipsUnknown(pairs, i + 1, defs, arr, map, o.contents,
                                             w \/ o.warned)

\* set(flags) that passes over the pairs whose key has no definition
setBulk_skipsUnknown(pairs, defs, arr, map, c) ==
  forEachSetFlagValue_skipsUnknown(pairs, 1, defs, arr, map, c, FALSE)

\* set(flags) that undoes the pairs already applied when one throws
setBulk_rollback(pairs, defs, arr, map, c) ==
  LET o == forEachSetFlagValue(pairs, 1, defs, arr, map, c, FALSE) IN
  IF o.threw # "none" THEN [o EXCEPT !.contents = c] ELSE o

\* set(flags) with an object
setBulk(pairs, defs, arr, map, c) ==
  forEachSetFlagValue(pairs, 1, defs, arr, map, c, FALSE)

\* set(flagName, value) with a string
setSingle(flagName, value, defs, arr, map, c) ==
  IF value = undefined THEN Outcome(c, "none", FALSE)
  ELSE setFlagValue(defs, flagName, value, arr, map, c)

\* hydrate(): every source's all() is called; one more fetch in flight each.
hydrate(p) == [i \in DOMAIN p |-> p[i] + 1]

Wrote(c1, c2) == {i \in DOMAIN c1 : c1[i] # c2[i]}

Last(o, f, v, ps, d, t, w, wr) ==
  [op |-> o, flag |-> f, value |-> v, pairs |-> ps, done |-> d,
   threw |-> t, warned |-> w, wrote |-> wr]

(***************************************************************************)
(* State machine                                                           *)
(***************************************************************************)
EmptyContent == [k \in FlagNames |-> undefined]
InitialContents == {EmptyContent, [k \in FlagNames |-> jsTrue]}

\* flagg({storage, definitions, hydrateFrom}): the state when it returns.
Init ==
  /\ \E opts \in OptsChoices :
       /\ storageArr = opts.storage
       /\ hydrateFromStorages = opts.hydrateFrom
  /\ definitions \in DefinitionChoices
  /\ \E c \in InitialContents : contents = [i \in DOMAIN storageArr |-> c]
  /\ pending = [i \in DOMAIN hydrateFromStorages |-> 1]
  /\ last = Last("flagg", "", undefined, << >>, 0, "none", FALSE, {})

Get(flagName) ==
  /\ last' = Last("get", flagName, get(flagName).value, << >>, 0,
                  get(flagName).threw, FALSE, {})
  /\ UNCHANGED <<storageArr, hydrateFromStorages, definitions, contents, pending>>

Set(flagName, value) ==
  LET o == setSingle(flagName, value, definitions, storageArr, storageMap, contents) IN
  /\ contents' = o.contents
  /\ last' = Last("set", flagName, value, << >>, 0, o.threw, o.warned,
                  Wrote(contents, o.contents))
  /\ UNCHANGED <<storageArr, hydrateFromStorages, definitions, pending>>

SetBulk(pairs) ==
  LET o == setBulk(pairs, definitions, storageArr, storageMap, contents) IN
  /\ contents' = o.contents
  /\ last' = Last("setBulk", "", undefined, pairs, o.done, o.threw, o.warned,
                  Wrote(contents, o.contents))
  /\ UNCHANGED <<storageArr, hydrateFromStorages, definitions, pending>>

SetDefinitions(newDefinitions) ==
  /\ \A i \in DOMAIN pending : pending[i] < MaxPending
  /\ definitions' = newDefinitions
  /\ pending' = hydrate(pending)
  /\ last' = Last("setDefinitions", "", undefined, << >>, 0, "none", FALSE, {})
  /\ UNCHANGED <<storageArr, hydrateFromStorages, contents>>

\* A continuation that drops the fetched values instead of passing them to set
HydrateApply_dropsValues(i) ==
  /\ pending[i] > 0
  /\ hydrateFromStorages[i].settles = "resolve"
  /\ last' = Last("hydrate", "", undefined, hydrateFromStorages[i].values,
                  0, "none", FALSE, {})
  /\ pending' = [pending EXCEPT ![i] = @ - 1]
  /\ UNCHANGED <<storageArr, hydrateFromStorages, definitions, contents>>

\* A pair whose flag has no entry in its storage yet
NoEntryYet(p) ==
  \/ p.key \notin DOMAIN definitions
  \/ getFlagValue(definitions[p.key], p.key, storageMap, contents).value = undefined

\* A continuation that gives way to what is stored: it applies only the pairs
\* of flags without an entry
HydrateApply_callerWins(i) ==
  /\ pending[i] > 0
  /\ hydrateFromStorages[i].settles = "resolve"
  /\ LET o == setBulk(SelectSeq(hydrateFromStorages[i].values, NoEntryYet),
                      definitions, storageArr, storageMap, contents) IN
     /\ contents' = o.contents
     /\ last' = Last("hydrate", "", undefined, hydrateFromStorages[i].values,
                     Len(hydrateFromStorages[i].values), o.threw, o.warned,
                     Wrote(contents, o.contents))
  /\ pending' = [pending EXCEPT ![i] = @ - 1]
  /\ UNCHANGED <<storageArr, hydrateFromStorages, definitions>>

\* A continuation that runs only once every earlier source has settled, as
\* if hydrate awaited the sources one after the other
HydrateApply_sequential(i) ==
  /\ pending[i] > 0
  /\ \A j \in 1..(i - 1) : pending[j] = 0
  /\ hydrateFromStorages[i].settles = "resolve"
  /\ LET o == setBulk(hydrateFromStorages[i].values, definitions, storageArr,
                      storageMap, contents) IN
     /\ contents' = o.contents
     /\ last' = Last("hydrate", "", undefined, hydrateFromStorages[i].values,
                     o.done, o.threw, o.warned, Wrote(contents, o.contents))
  /\ pending' = [pending EXCEPT ![i] = @ - 1]
  /\ UNCHANGED <<storageArr, hydrateFromStorages, definitions>>

\* A continuation that applies the values against the registry flagg() has
\* when no definitions are given, instead of the current one
HydrateApply_staleRegistry(i) ==
  /\ pending[i] > 0
  /\ hydrateFromStorages[i].settles = "resolve"
  /\ LET o == setBulk(hydrateFromStorages[i].values, << >>, storageArr,
                      storageMap, contents) IN
     /\ contents' = o.contents
     /\ last' = Last("hydrate", "", undefined, hydrateFromStorages[i].values,
                     o.done, o.threw, o.warned, Wrote(contents, o.contents))
  /\ pending' = [pending EXCEPT ![i] = @ - 1]
  /\ UNCHANGED <<storageArr, hydrateFromStorages, definitions>>

\* The continuation of one source's "await hydrateStorage.all()".
HydrateApply(i) ==
  /\ pending[i] > 0
  /\ hydrateFromStorages[i].settles = "resolve"
  /\ LET o == setBulk(hydrateFromStorages[i].values, definitions, storageArr,
                      storageMap, contents) IN
     /\ contents' = o.contents
     /\ last' = Last("hydrate", "", undefined, hydrateFromStorages[i].values,
                     o.done, o.threw, o.warned, Wrote(contents, o.contents))
  /\ pending' = [pending EXCEPT ![i] = @ - 1]
  /\ UNCHANGED <<storageArr, hydrateFromStorages, definitions>>

\* A source's all() rejects: the async callback ends in an unhandled rejection.
HydrateReject(i) ==
  /\ pending[i] > 0
  /\ hydrateFromStorages[i].settles = "reject"
  /\ pending' = [pending EXCEPT ![i] = @ - 1]
  /\ last' = Last("reject", "", undefined, << >>, 0, "rejection", FALSE, {})
  /\ UNCHANGED <<storageArr, hydrateFromStorages, definitions, contents>>

Next ==
  \/ \E f \in FlagNames : Get(f)
  \/ \E p \in SetChoices : Set(p.key, p.value)
  \/ \E ps \in BulkChoices : SetBulk(ps)
  \/ \E D \in DefinitionChoices : SetDefinitions(D)
  \/ \E i \in DOMAIN hydrateFromStorages : HydrateApply(i)
  \/ \E i \in DOMAIN hydrateFromStorages : HydrateReject(i)

Spec == Init /\ [][Next]_vars

\* The resolver constructed over storages that hold nothing yet
InitEmpty ==
  /\ Init
  /\ \A i \in DOMAIN contents : contents[i] = EmptyContent

SpecEmpty == InitEmpty /\ [][Next]_vars

\* The event loop runs every settled promise's continuation.
Fairness ==
  /\ \A i \in 1..MaxSources :
       WF_vars(i \in DOMAIN hydrateFromStorages /\ HydrateApply(i))
  /\ \A i \in 1..MaxSources :
       WF_vars(i \in DOMAIN hydrateFromStorages /\ HydrateReject(i))

\* The specification for what happens eventually: the resolver constructed
\* with hydration sources over one empty writable storage, and a caller that
\* reads and writes flag a and swaps registries of flag a.
HydratingDefinitionChoices ==
  { D \in DefinitionChoices :
      /\ DOMAIN D \subseteq {"a"}
      /\ \A f \in DOMAIN D : ~D[f].options /\ D[f].default.type = "boolean" }
HydratingSetChoices == {Pair("a", jsTrue), Pair("a", jsFalse)}
HydratingBulkChoices == {<<Pair("a", jsTrue)>>, <<Pair("b", jsTrue), Pair("a", jsTrue)>>}

InitHydrating ==
  /\ Init
  /\ hydrateFromStorages # << >>
  /\ Len(storageArr) = 1
  /\ definitions \in HydratingDefinitionChoices
  /\ \A i \in DOMAIN contents : contents[i] = EmptyContent

NextHydrating ==
  \/ Get("a")
  \/ \E p \in HydratingSetChoices : Set(p.key, p.value)
  \/ \E ps \in HydratingBulkChoices : SetBulk(ps)
  \/ \E D \in HydratingDefinitionChoices : SetDefinitions(D)
  \/ \E i \in DOMAIN hydrateFromStorages : HydrateApply(i)
  \/ \E i \in DOMAIN hydrateFromStorages : HydrateReject(i)

SpecFair == InitHydrating /\ [][NextHydrating]_vars /\ Fairness

(***************************************************************************)
(* Properties                                                              *)
(***************************************************************************)
Defined(f) == f \in DOMAIN definitions

\* The storage the current registry resolves flag f to
ResolvedStorage(f) == resolveFlagStorage(definitions[f], storageMap)

\* What the resolved storage's own get(f) returns
Stored(f) == getFlagValue(definitions[f], f, storageMap, contents)

\* The resolved storage has a set / a remove that returns normally
CanSet(f) ==
  HasSet(storageArr, ResolvedStorage(f)) /\ ~storageArr[ResolvedStorage(f)].fails
CanRemove(f) ==
  HasRemove(storageArr, ResolvedStorage(f)) /\ ~storageArr[ResolvedStorage(f)].fails

\* The last step was set(f, v) with a value given
LastSet(f) == last.op = "set" /\ last.flag = f /\ last.value # undefined

\* C1: for every defined flag whose resolved storage returns null or
\* undefined for the flag name, get(flag) equals getDefault(flag).
C1_GetFallsBackToDefault ==
  \A f \in FlagNames :
    (Defined(f) /\ Stored(f).threw = "none" /\ Stored(f).value \in {null, undefined})
      => /\ get(f) = getDefault(f)
         /\ get(f).threw = "none"

\* A stored null under a default that is not null
C1_Witness ==
  \E f \in FlagNames :
    /\ Defined(f) /\ Stored(f).threw = "none" /\ Stored(f).value = null
    /\ getDefault(f).value # null

\* What isOverridden is to return for a value v that get returns
OverriddenFor(f, v) ==
  IF getFlagType(definitions[f]) = "boolean"
  THEN ToBoolean(v) # ToBoolean(getDefault(f).value)
  ELSE v # getDefault(f).value

\* C2 as stated: for every flag and every value v that differs from the
\* flag's default, right after set(flag, v) both get(flag) = v and
\* isOverridden(flag) = true.
C2_Original ==
  \A f \in FlagNames :
    (Defined(f) /\ LastSet(f) /\ last.value # getDefault(f).value)
      => /\ get(f) = Ok(last.value)
         /\ isOverridden(f) = Ok(jsTrue)

\* C2 amended: for every defined flag whose resolved storage has a set that
\* returns normally, and every value v other than null and undefined that
\* differs from the flag's default, right after set(flag, v) get(flag) = v;
\* isOverridden(flag) is then true for a string or select flag, and for a
\* boolean flag exactly when the boolean coercions of v and of the default
\* differ.
C2_SetThenGet ==
  \A f \in FlagNames :
    (/\ Defined(f) /\ LastSet(f) /\ CanSet(f)
     /\ last.value # null
     /\ last.value # getDefault(f).value)
      => /\ get(f) = Ok(last.value)
         /\ last.threw = "none"
         /\ isOverridden(f) = Ok(IF OverriddenFor(f, last.value) THEN jsTrue ELSE jsFalse)
         /\ getFlagType(definitions[f]) # "boolean" => isOverridden(f) = Ok(jsTrue)

\* A string was set on a flag whose default is a boolean, and is overridden
C2_Witness ==
  \E f \in FlagNames :
    /\ Defined(f) /\ LastSet(f) /\ CanSet(f)
    /\ last.value.type = "string"
    /\ getDefault(f).value.type = "boolean"
    /\ last.wrote # {}
    /\ isOverridden(f) = Ok(jsTrue)

\* C3 as stated: after set(flag, d) with d the flag's default, the resolved
\* storage returns null or undefined for the flag, whatever was stored.
C3_Original ==
  \A f \in FlagNames :
    (Defined(f) /\ LastSet(f) /\ last.value = getDefault(f).value)
      => (Stored(f).threw = "none" => Stored(f).value \in {null, undefined})

\* C3 amended: after set(flag, d) with d the flag's default, on a flag whose
\* resolved storage has a remove that returns normally, the resolved storage
\* returns null or undefined for the flag, whatever was stored before.
C3_SetDefaultRemoves ==
  \A f \in FlagNames :
    (Defined(f) /\ LastSet(f) /\ last.value = getDefault(f).value /\ CanRemove(f))
      => /\ Stored(f).threw = "none"
         /\ Stored(f).value \in {null, undefined}
         /\ last.threw = "none"

\* set(flag, default) removed an entry the storage held
C3_Witness ==
  \E f \in FlagNames :
    /\ Defined(f) /\ LastSet(f) /\ last.value = getDefault(f).value /\ CanRemove(f)
    /\ last.wrote = {ResolvedStorage(f)}

\* A boolean flag: no options list and a default that is no string
BooleanFlag(f) ==
  Defined(f) /\ ~definitions[f].options /\ definitions[f].default.type # "string"

\* C4 as stated: isOverridden of a boolean flag is true exactly when the
\* boolean coercions of get(flag) and of the default differ; with default
\* false it is true after set(flag, true) and false after set(flag, false).
C4_Original ==
  \A f \in FlagNames :
    (BooleanFlag(f) /\ get(f).threw = "none")
      => /\ (isOverridden(f) = Ok(jsTrue))
              <=> (ToBoolean(get(f).value) # ToBoolean(getDefault(f).value))
         /\ (definitions[f].default = jsFalse /\ LastSet(f) /\ last.value = jsTrue)
              => isOverridden(f) = Ok(jsTrue)
         /\ (definitions[f].default = jsFalse /\ LastSet(f) /\ last.value = jsFalse)
              => isOverridden(f) = Ok(jsFalse)

\* C4 amended: isOverridden of a boolean flag is true exactly when the
\* boolean coercions of get(flag) and of the default differ; with default
\* false and a resolved storage whose set and remove return normally it is
\* true after set(flag, true) and false after set(flag, false).
C4_BooleanOverride ==
  \A f \in FlagNames :
    (BooleanFlag(f) /\ get(f).threw = "none")
      => /\ isOverridden(f).threw = "none"
         /\ (isOverridden(f) = Ok(jsTrue))
              <=> (ToBoolean(get(f).value) # ToBoolean(getDefault(f).value))
         /\ (/\ definitions[f].default = jsFalse /\ LastSet(f) /\ last.value = jsTrue
             /\ CanSet(f))
              => isOverridden(f) = Ok(jsTrue)
         /\ (/\ definitions[f].default = jsFalse /\ LastSet(f) /\ last.value = jsFalse
             /\ CanRemove(f))
              => isOverridden(f) = Ok(jsFalse)

\* set(flag, true) overrode a boolean flag whose default is false
C4_Witness ==
  \E f \in FlagNames :
    /\ BooleanFlag(f) /\ definitions[f].default = jsFalse
    /\ LastSet(f) /\ last.value = jsTrue /\ CanSet(f)
    /\ last.wrote # {}
    /\ isOverridden(f) = Ok(jsTrue)

\* The definition of f names a storage that was registered
NamesRegisteredStorage(f) ==
  /\ definitions[f].storage # undefined
  /\ ToPropertyKey(definitions[f].storage) \in {storageArr[i].name : i \in DOMAIN storageArr}

\* C5: with several storages registered, set(flag, v) on a flag whose
\* definition names a registered storage B changes the contents of no
\* storage object other than B.
C5_SetWritesOnlyNamedStorage ==
  \A f \in FlagNames :
    (Defined(f) /\ last.op = "set" /\ last.flag = f /\ NamesRegisteredStorage(f))
      => \A i \in last.wrote :
           storageArr[i].name = ToPropertyKey(definitions[f].storage)

\* set wrote to the second storage and to no other
C5_Witness ==
  \E f \in FlagNames :
    /\ Defined(f) /\ last.op = "set" /\ last.flag = f /\ NamesRegisteredStorage(f)
    /\ Len(storageArr) > 1
    /\ last.wrote = {2}

\* The definition of f names a storage that the storage map does not hold
NamesAbsentStorage(f) ==
  /\ definitions[f].storage # undefined
  /\ ToPropertyKey(definitions[f].storage) \notin DOMAIN storageMap

\* C7 as stated: for a definition whose storage name is absent from the
\* storage map, get and set raise no TypeError and operate on the "_default"
\* storage: get reads from it, set writes to or removes from it alone.
C7_Original ==
  \A f \in FlagNames :
    (Defined(f) /\ NamesAbsentStorage(f))
      => /\ (last.op = "get" /\ last.flag = f)
              => /\ last.threw = "none"
                 /\ ResolvedStorage(f) = storageMap[DEFAULT_STORAGE_NAME]
         /\ (last.op = "set" /\ last.flag = f)
              => /\ last.threw # "TypeError"
                 /\ ResolvedStorage(f) = storageMap[DEFAULT_STORAGE_NAME]
                 /\ last.wrote \subseteq {storageMap[DEFAULT_STORAGE_NAME]}
                 /\ (last.value # undefined /\ CanSet(f) /\ CanRemove(f))
                      => StorageGet(contents[storageMap[DEFAULT_STORAGE_NAME]], f)
                           = IF last.value = getDefault(f).value
                             THEN undefined ELSE last.value

\* C8 as stated: for a flag name without a definition get returns null, and
\* set, single or as a pair of a bulk set, is silently skipped: no exception
\* and nothing written to any storage.
C8_Original ==
  /\ \A f \in FlagNames : ~Defined(f) => get(f) = Ok(null)
  /\ (LastSet(last.flag) /\ ~Defined(last.flag))
       => last.threw = "none" /\ last.wrote = {}
  /\ (last.op = "setBulk" /\ \A i \in DOMAIN last.pairs : ~Defined(last.pairs[i].key))
       => last.threw = "none" /\ last.wrote = {}

\* The capability set(f, v) needs of the resolved storage is missing
LacksCapability(f, v) ==
  IF JSONstringify(v) = JSONstringify(getDefault(f).value)
  THEN ~HasRemove(storageArr, ResolvedStorage(f))
  ELSE ~HasSet(storageArr, ResolvedStorage(f))

C10_Original ==
  (last.op = "setBulk" /\ last.threw = "backend")
    => last.done = Len(last.pairs) - 1

\* Flag a is defined with default false on a storage whose set returns
ADefaultFalseWritable ==
  /\ Defined("a") /\ definitions["a"].default = jsFalse /\ CanSet("a")

\* A fetch of source i, whose all() resolves to {a: true}, is in flight
FetchingATrue(i) ==
  /\ i \in DOMAIN hydrateFromStorages
  /\ hydrateFromStorages[i].settles = "resolve"
  /\ hydrateFromStorages[i].values = <<Pair("a", jsTrue)>>
  /\ pending[i] > 0

\* C6: with a writable storage, a hydration source whose all() resolves to
\* {a: true} and a definition of a with default false, eventually (the fetch
\* resolved and its batch applied) get('a') = true, as long as the registry
\* still defines a that way; and get('a') = true then stays until a set, a
\* hydration batch or the setDefinitions that starts a hydration changes it.
C6_HydratedEventually ==
  /\ \A i \in 1..MaxSources :
       (FetchingATrue(i) /\ ADefaultFalseWritable)
         ~> (get("a") = Ok(jsTrue) \/ ~ADefaultFalseWritable)
  /\ [][(get("a") = Ok(jsTrue) /\ get("a")' # Ok(jsTrue))
          => last'.op \in {"set", "setBulk", "hydrate", "setDefinitions"}]_vars

\* The batch {a: true} was applied: a is stored and read as true
C6_Witness ==
  /\ last.op = "hydrate" /\ last.pairs = <<Pair("a", jsTrue)>> /\ last.done = 1
  /\ last.wrote # {}
  /\ ADefaultFalseWritable
  /\ get("a") = Ok(jsTrue)

\* C11 as stated: in every reachable state getAllResolved() has exactly the
\* registry's flag names as keys, each mapped to get(name), and
\* getAllOverridden() is getAllResolved() restricted to the names for which
\* isOverridden(name) is true.
C11_Original ==
  /\ getAllResolved.threw = "none"
  /\ DOMAIN getAllResolved.value = DOMAIN definitions
  /\ \A f \in DOMAIN definitions : getAllResolved.value[f] = get(f).value
  /\ getAllOverridden.threw = "none"
  /\ DOMAIN getAllOverridden.value
       = {f \in DOMAIN definitions : isOverridden(f) = Ok(jsTrue)}
  /\ \A f \in DOMAIN getAllOverridden.value :
       getAllOverridden.value[f] = getAllResolved.value[f]

\* What the write path leaves in storage for the pair (k, v) under the
\* current registry, on a storage whose set and remove return normally
AppliedNow(k, v) ==
  /\ Defined(k)
  /\ (CanSet(k) /\ CanRemove(k))
       => Stored(k) = Ok(IF JSONstringify(v) = JSONstringify(getDefault(k).value)
                         THEN undefined ELSE v)

\* The last step applied a batch of pairs: a bulk set or a hydration batch
LastBatch == last.op \in {"setBulk", "hydrate"}

\* C12: after setDefinitions(D) every later get, set and hydration batch is
\* computed against D: a get returns what D and the storages give, a set or
\* a batch ends in a TypeError exactly at a key D does not define, and every
\* pair applied is stored or pruned by D's defaults; this includes a batch
\* whose fetch was started before the swap and is applied after it.
C12_CurrentRegistryUsed ==
  /\ last.op = "get" =>
       /\ last.threw = get(last.flag).threw
       /\ last.value = get(last.flag).value
  /\ LastSet(last.flag) =>
       /\ (last.threw = "TypeError") <=> ~Defined(last.flag)
       /\ last.threw = "none" => AppliedNow(last.flag, last.value)
  /\ LastBatch =>
       /\ \A i \in 1..last.done :
            AppliedNow(last.pairs[i].key, last.pairs[i].value)
       /\ (last.threw = "TypeError")
            <=> (last.done < Len(last.pairs) /\ ~Defined(last.pairs[last.done + 1].key))

\* A batch was applied while another fetch of the same source, started by a
\* later setDefinitions, is still in flight
C12_Witness ==
  \E i \in DOMAIN hydrateFromStorages :
    /\ last.op = "hydrate"
    /\ hydrateFromStorages[i].settles = "resolve"
    /\ last.pairs = hydrateFromStorages[i].values
    /\ pending[i] >= 1
    /\ last.done = Len(last.pairs)
    /\ last.wrote # {}

\* C13 as stated: starting from empty storages, after any sequence of set,
\* bulk set, hydration batches and setDefinitions, every entry a storage
\* holds for a defined flag is a non-null value different from the flag's
\* current default.
C13_Original ==
  \A i \in DOMAIN contents : \A f \in FlagNames :
    (Defined(f) /\ StorageGet(contents[i], f) # undefined)
      => /\ StorageGet(contents[i], f) # null
         /\ StorageGet(contents[i], f) # getDefault(f).value

\* C14 as stated: when a hydration batch containing a pair (f, v) with v
\* equal to f's default is applied, the storage resolved for f holds no entry
\* for f afterwards, also when a caller had stored an override before.
C14_Original ==
  last.op = "hydrate" =>
    \A i \in DOMAIN last.pairs :
      LET f == last.pairs[i].key IN
      (Defined(f) /\ last.pairs[i].value = getDefault(f).value)
        => (Stored(f).threw = "none" => Stored(f).value \in {null, undefined})

\* Some source other than i hangs with a fetch in flight, or rejects
OtherSourceStuckOrFailed(i) ==
  \E j \in DOMAIN hydrateFromStorages :
    /\ j # i
    /\ \/ hydrateFromStorages[j].settles = "never" /\ pending[j] > 0
       \/ hydrateFromStorages[j].settles = "reject"

\* A fetch of source i, whose all() resolves, is in flight
Fetching(i) ==
  /\ i \in DOMAIN hydrateFromStorages
  /\ hydrateFromStorages[i].settles = "resolve"
  /\ pending[i] > 0

\* The last step applied the batch of source i
AppliedBatch(i) ==
  /\ i \in DOMAIN hydrateFromStorages
  /\ last.op = "hydrate"
  /\ last.pairs = hydrateFromStorages[i].values

\* C15: with several hydration sources, a source whose all() never settles
\* or rejects does not block the others: a fetch in flight of every other
\* source that resolves has its batch applied eventually, and get and set
\* called meanwhile or afterwards work as usual.
C15_HungSourceBlocksNobody ==
  /\ \A i \in 1..MaxSources :
       (Fetching(i) /\ OtherSourceStuckOrFailed(i) /\ last.op # "hydrate")
         ~> AppliedBatch(i)
  /\ [](OtherSourceStuckOrFailed(0) =>
          /\ last.op = "get" =>
               /\ last.threw = get(last.flag).threw
               /\ last.value = get(last.flag).value
          /\ (LastSet(last.flag) /\ Defined(last.flag)) =>
               /\ last.threw = "none"
               /\ AppliedNow(last.flag, last.value))

\* The batch of the second source was applied while the first still hangs
C15_Witness ==
  /\ Len(hydrateFromStorages) = 2
  /\ hydrateFromStorages[1].settles = "never" /\ pending[1] > 0
  /\ AppliedBatch(2) /\ last.done = 1 /\ last.wrote # {}
  /\ get("a") = Ok(jsTrue)

\* C16: a bulk set applies its pairs one at a time in the order of the
\* input; when the backend throws while applying a pair, that pair is the
\* first one of a failing storage, and the effects of all pairs before it
\* remain in storage.
C16_NoRollback ==
  (last.op = "setBulk" /\ last.threw = "backend") =>
    /\ last.done < Len(last.pairs)
    /\ storageArr[ResolvedStorage(last.pairs[last.done + 1].key)].fails
    /\ \A i \in 1..last.done :
         /\ AppliedNow(last.pairs[i].key, last.pairs[i].value)
         /\ CanSet(last.pairs[i].key)

\* A bulk set wrote its first pair and the backend threw at its second
C16_Witness ==
  /\ last.op = "setBulk" /\ last.threw = "backend"
  /\ last.done = 1 /\ Len(last.pairs) = 2
  /\ last.wrote # {}
  /\ Stored(last.pairs[1].key) = Ok(last.pairs[1].value)

\* C17 as stated: for every non-empty sequence of storages the storage
\* map's "_default" entry is the first storage, so a flag without a storage
\* name is read from and written to the first storage, also when a later
\* storage is itself named "_default".
C17_Original ==
  \A f \in FlagNames :
    (/\ Defined(f) /\ definitions[f].storage = undefined
     /\ last.op \in {"get", "set"} /\ last.flag = f)
      => /\ storageMap[DEFAULT_STORAGE_NAME] = 1
         /\ ResolvedStorage(f) = 1
         /\ last.wrote \subseteq {1}

\* The storage resolved for f throws on set and remove
Fails(f) ==
  ResolvedStorage(f) # PrototypeMember /\ storageArr[ResolvedStorage(f)].fails

\* Index k is the first pair of the last batch whose key has no definition,
\* and no pair before it met a failing storage
StopsAt(k) ==
  /\ k \in DOMAIN last.pairs
  /\ ~Defined(last.pairs[k].key)
  /\ \A i \in 1..(k - 1) : Defined(last.pairs[i].key) /\ ~Fails(last.pairs[i].key)

\* C18: when a resolved hydration fetch contains a key without a definition
\* in the current registry, applying the batch stops at that key: the pairs
\* before it are applied, the pairs after it are not, and the TypeError ends
\* the hydration callback alone.
C18_HydrationStopsAtUnknownKey ==
  \A k \in 1..MaxBulk :
    (last.op = "hydrate" /\ StopsAt(k)) =>
      /\ last.threw = "TypeError"
      /\ last.done = k - 1
      /\ \A i \in 1..(k - 1) : AppliedNow(last.pairs[i].key, last.pairs[i].value)
      /\ last.wrote \subseteq {ResolvedStorage(last.pairs[i].key) : i \in 1..(k - 1)}

\* A batch stopped at its first key and left the override of its second key
C18_Witness ==
  /\ last.op = "hydrate" /\ StopsAt(1) /\ Len(last.pairs) = 2
  /\ Defined(last.pairs[2].key)
  /\ CanRemove(last.pairs[2].key)
  /\ last.pairs[2].value = getDefault(last.pairs[2].key).value
  /\ Stored(last.pairs[2].key).value # undefined

\* The step applies a hydration batch right after the caller's set of f
HydrateAfterCallerSet(f) ==
  /\ LastSet(f) /\ last.threw = "none" /\ Defined(f)
  /\ last'.op = "hydrate"
  /\ \E i \in 1..last'.done : last'.pairs[i].key = f

HoldsEntry(f) ==
  Stored(f).threw = "none" /\ Stored(f).value \notin {undefined, null}

\* C20: in every reachable state and for every defined flag f,
\* isOverridden(f) = true implies that the storage resolved for f holds an
\* entry for f that is neither null nor undefined: a flag with no stored entry
\* is never reported as overridden, whatever its type.
C20_OverriddenHasEntry ==
  \A f \in FlagNames :
    (Defined(f) /\ isOverridden(f) = Ok(jsTrue)) => HoldsEntry(f)

\* Flag a is a string flag with an entry and is reported as overridden
C20_Witness ==
  /\ Defined("a")
  /\ getFlagType(definitions["a"]) = "string"
  /\ HoldsEntry("a")
  /\ isOverridden("a") = Ok(jsTrue)

====
